---- MODULE Spec2Model ----
(***************************************************************************)
(* Event-management server (Express + MongoDB): signup/login with bcrypt   *)
(* and JWT, and CRUD over an events collection.  The repository holds      *)
(* three variants of the server:                                           *)
(*   "index"     src/index.js          users only, login by username       *)
(*   "part_000"  src/unnamed/part_000  users + events, 503 guards,         *)
(*                                     login by email, signup issues token *)
(*   "part_001"  src/unnamed/part_001  users + events, no guards,          *)
(*                                     login by username                   *)
(* A request handler is an async function: it runs synchronously up to its *)
(* first await, and resumes when the awaited store operation settles.  One *)
(* action models the arrival of a request with the synchronous prefix of   *)
(* its handler; one action per awaited store operation models the store    *)
(* executing the operation atomically together with the handler's          *)
(* continuation up to the next await or the response.                      *)
(***************************************************************************)
EXTENDS Integers, Sequences, FiniteSets, TLC

VARIABLES
  variant,           \* which of the three server files is running
  runPc,             \* run(): "connect" (awaiting client.connect), "done", "failed"
  usersCollection,   \* TRUE once run() has assigned the handle
  eventsCollection,  \* TRUE once run() has assigned the handle
  users,             \* the users collection, in insertion (natural) order
  events,            \* the events collection, in insertion (natural) order
  nextId,            \* the next ObjectId the driver generates
  reqs               \* the requests received so far, in arrival order

vars == <<variant, runPc, usersCollection, eventsCollection, users, events, nextId, reqs>>

----------------------------------------------------------------------------
(* Bounds of the model *)

MaxReq == 2

----------------------------------------------------------------------------
(* JavaScript / JSON values *)

\* the value undefined of a field that otherwise holds a string
undefined == "undefined"
\* the value undefined of a field that otherwise holds a number, a string or an object
absent == [absent |-> TRUE]
null == [null |-> TRUE]
NoBody == [none |-> TRUE]

Variants == {"index", "part_000", "part_001"}
Usernames == {"u1", "u2"}
Emails == {"e1", "e2"}
Passwords == {"p1", "p2"}
PhotoUrls == {"img"}

Min(S) == CHOOSE x \in S : \A y \in S : x <= y

(* ObjectId <-> its 24-hex-digit string form.  An ObjectId is modelled by  *)
(* a natural number; its string form wraps it; any other string is         *)
(* rejected by the constructor with a BSONError.                           *)
toString(oid) == [hex |-> oid]
ObjectIdValid(s) == DOMAIN s = {"hex"}
ObjectId(s) == s.hex

----------------------------------------------------------------------------
(* bcrypt *)

\* bcrypt.hash(password, 10): a salted one-way hash; throws when the data is undefined
BcryptThrows(password) == password = undefined
BcryptHash(password) == [bcrypt |-> password]
\* bcrypt.compare(password, hash)
BcryptCompare(password, hash) == hash = [bcrypt |-> password]

----------------------------------------------------------------------------
(* jsonwebtoken *)

\* process.env.JWT_SECRET, taken as set
JWT_SECRET == "secret"
\* expiresIn: '7d', in days
ExpiresIn == 7

\* jwt.sign(payload, secret, { expiresIn: '7d' })
JwtSign(payload, secret) == [payload |-> payload, sig |-> [p |-> payload, k |-> secret]]

\* a verification that does not look at the expiry
JwtVerifyNoExpiry(token, secret, age) ==
  /\ DOMAIN token = {"payload", "sig"}
  /\ token.sig = [p |-> token.payload, k |-> secret]

\* jwt.verify(token, secret) at `age` days after issuance: TRUE iff it does not throw
JwtVerify(token, secret, age) ==
  /\ DOMAIN token = {"payload", "sig"}                    \* well-formed
  /\ token.sig = [p |-> token.payload, k |-> secret]      \* signature matches
  /\ age < ExpiresIn                                      \* not expired

----------------------------------------------------------------------------
(* The store: collections as sequences of documents *)

\* collection.findOne(filter): the first matching document in natural order, or
\* null; matching: the indices of the documents the filter matches
FindOne(coll, matching) == IF matching = {} THEN null ELSE coll[Min(matching)]

\* an insert under a unique index on email
InsertOneUniqueEmail(coll, doc) ==
  IF \E i \in DOMAIN coll : coll[i].email = doc.email THEN coll ELSE Append(coll, doc)

\* collection.insertOne(doc): appends the document
InsertOne(coll, doc) == Append(coll, doc)

----------------------------------------------------------------------------
(* Requests *)

Terminal == {"done", "unhandledRejection"}

\* a request record: the handler's inputs, its position, and the response it sent
Req(route, in, pc, status, out, err) ==
  [route |-> route, in |-> in, pc |-> pc, status |-> status, out |-> out,
   err |-> err, user |-> absent]

Pending(route, in, pc) == Req(route, in, pc, 0, NoBody, "none")
Responded(route, in, status, out, err) == Req(route, in, "done", status, out, err)

InFlight(r) == r \in DOMAIN reqs /\ reqs[r].pc \notin Terminal
Awaiting(r, route, pc) == r \in DOMAIN reqs /\ reqs[r].route = route /\ reqs[r].pc = pc

\* res.status(status).json(out) in request r
Respond(r, status, out, err) ==
  reqs' = [reqs EXCEPT ![r].pc = "done", ![r].status = status, ![r].out = out, ![r].err = err]

\* a new request is received: the handler's synchronous prefix has produced `rec`
Receive(rec) ==
  /\ Len(reqs) < MaxReq
  /\ reqs' = Append(reqs, rec)

StoreUnchanged == UNCHANGED <<users, events, nextId>>
ServerUnchanged == UNCHANGED <<variant, runPc, usersCollection, eventsCollection>>

----------------------------------------------------------------------------
(* run(): connect and assign the collection handles *)

runConnected ==
  /\ runPc = "connect"
  /\ runPc' = "done"
  /\ usersCollection' = TRUE
  /\ eventsCollection' = (variant # "index")
  /\ UNCHANGED <<variant, users, events, nextId, reqs>>

runFailed ==
  /\ runPc = "connect"
  /\ runPc' = "failed"
  /\ UNCHANGED <<variant, usersCollection, eventsCollection, users, events, nextId, reqs>>

----------------------------------------------------------------------------
(* POST /signup *)

SignupBodies ==
  [username : Usernames, email : Emails, photoUrl : PhotoUrls,
   password : Passwords \cup {undefined}]

\* a lookup by the wrong field
SignupFilterByUsername(u, body) == u.username = body.username

\* the filter { email } of the existence check
SignupFilter(u, body) == u.email = body.email

\* the 201 response body
SignupResponse(id, body) ==
  IF variant = "part_000"
    THEN [token |-> JwtSign([userId |-> toString(id), email |-> body.email], JWT_SECRET),
          user |-> [id |-> id, username |-> body.username, email |-> body.email,
                    photoUrl |-> body.photoUrl]]
    ELSE [userId |-> id]

\* the document insertOne stores
SignupDocument(id, body) ==
  [_id |-> id, username |-> body.username, email |-> body.email,
   photoUrl |-> body.photoUrl, password |-> BcryptHash(body.password)]

signupArrive ==
  \E body \in SignupBodies :
    /\ Receive(
         IF variant = "part_000" /\ ~usersCollection
           THEN Responded("signup", body, 503, NoBody, "none")
         ELSE IF ~usersCollection
           THEN Responded("signup", body, 500, NoBody, "TypeError")
         ELSE Pending("signup", body, "findOne"))
    /\ StoreUnchanged /\ ServerUnchanged

signupFindOne(r) ==
  /\ Awaiting(r, "signup", "findOne")
  /\ LET body == reqs[r].in
         existingUser == FindOne(users, {i \in DOMAIN users : SignupFilter(users[i], body)})
     IN  IF existingUser # null
           THEN Respond(r, 409, NoBody, "none")
         ELSE IF BcryptThrows(body.password)
           THEN Respond(r, 500, NoBody, "BcryptError")
         ELSE reqs' = [reqs EXCEPT ![r].pc = "insertOne"]
  /\ StoreUnchanged /\ ServerUnchanged

signupInsertOne(r) ==
  /\ Awaiting(r, "signup", "insertOne")
  /\ LET body == reqs[r].in
     IN  /\ users' = InsertOne(users, SignupDocument(nextId, body))
         /\ Respond(r, 201, SignupResponse(nextId, body), "none")
  /\ nextId' = nextId + 1
  /\ UNCHANGED events /\ ServerUnchanged

----------------------------------------------------------------------------
(* POST /login *)

\* the request body: the client sends the identifier the variant's handler reads
LoginBodies ==
  IF variant = "part_000"
    THEN [username : {undefined}, email : Emails, password : Passwords \cup {undefined}]
    ELSE [username : Usernames, email : {undefined}, password : Passwords \cup {undefined}]

\* the filter of the lookup: { email } in part_000, { username } in the others
LoginFilter(u, body) ==
  IF variant = "part_000" THEN u.email = body.email ELSE u.username = body.username

\* the payload of the token login signs
LoginPayload(user) ==
  IF variant = "part_000"
    THEN [userId |-> toString(user._id), email |-> user.email]
    ELSE [userId |-> toString(user._id), username |-> user.username]

\* the 200 response body
LoginResponse(user) ==
  [token |-> JwtSign(LoginPayload(user), JWT_SECRET),
   user |-> [id |-> user._id, username |-> user.username, email |-> user.email,
             photoUrl |-> user.photoUrl]]

loginArrive ==
  \E body \in LoginBodies :
    /\ Receive(
         IF variant = "part_000" /\ ~usersCollection
           THEN Responded("login", body, 503, NoBody, "none")
         ELSE IF ~usersCollection
           THEN Responded("login", body, 500, NoBody, "TypeError")
         ELSE Pending("login", body, "findOne"))
    /\ StoreUnchanged /\ ServerUnchanged

loginFindOne(r) ==
  /\ Awaiting(r, "login", "findOne")
  /\ LET body == reqs[r].in
         user == FindOne(users, {i \in DOMAIN users : LoginFilter(users[i], body)})
     IN  IF user = null
           THEN Respond(r, 401, NoBody, "none")
         ELSE IF BcryptThrows(body.password)
           THEN Respond(r, 500, NoBody, "BcryptError")
         ELSE IF ~BcryptCompare(body.password, user.password)
           THEN Respond(r, 401, NoBody, "none")
         ELSE Respond(r, 200, LoginResponse(user), "none")
  /\ StoreUnchanged /\ ServerUnchanged

----------------------------------------------------------------------------
(* authenticateJWT and GET /api/user/me *)

\* the tokens login and signup have handed out so far
IssuedTokens ==
  {reqs[r].out.token : r \in {q \in DOMAIN reqs : "token" \in DOMAIN reqs[q].out}}

\* a token whose payload was altered after signing
Tampered(t) == [t EXCEPT !.payload.userId = toString(ObjectId(t.payload.userId) + 1)]
\* a token for the same payload signed with another key
Forged(t) == JwtSign(t.payload, "guess")

\* the Authorization header a client may send; age: days since the token was issued
AuthHeaders ==
  {[kind |-> "absent"], [kind |-> "noToken"],
   [kind |-> "bearer", token |-> [garbage |-> TRUE], age |-> 0]}
  \cup [kind : {"bearer"}, token : IssuedTokens, age : {0, ExpiresIn - 1, ExpiresIn}]
  \cup {[kind |-> "bearer", token |-> Tampered(t), age |-> 0] : t \in IssuedTokens}
  \cup {[kind |-> "bearer", token |-> Forged(t), age |-> 0] : t \in IssuedTokens}

\* req.user as the middleware builds it from the user document
ReqUser(user) ==
  [id |-> user._id, username |-> user.username, email |-> user.email,
   photoUrl |-> user.photoUrl]

\* the synchronous prefix of authenticateJWT
authenticateJWT(h) ==
  IF h.kind = "absent" THEN Responded("me", h, 401, NoBody, "none")
  ELSE IF h.kind = "noToken" THEN Responded("me", h, 401, NoBody, "none")
  ELSE IF ~JwtVerify(h.token, JWT_SECRET, h.age)
    THEN Responded("me", h, 403, NoBody, "JsonWebTokenError")
  ELSE IF ~usersCollection THEN Responded("me", h, 403, NoBody, "TypeError")
  ELSE IF ~ObjectIdValid(h.token.payload.userId)
    THEN Responded("me", h, 403, NoBody, "BSONError")
  ELSE Pending("me", h, "findOne")

meArrive ==
  \E h \in AuthHeaders :
    /\ Receive(authenticateJWT(h))
    /\ StoreUnchanged /\ ServerUnchanged

\* the lookup settles; on success the middleware sets req.user and calls next(),
\* and the route handler answers res.json(req.user)
meFindOne(r) ==
  /\ Awaiting(r, "me", "findOne")
  /\ LET id == ObjectId(reqs[r].in.token.payload.userId)
         user == FindOne(users, {i \in DOMAIN users : users[i]._id = id})
     IN  IF user = null
           THEN Respond(r, 401, NoBody, "none")
           ELSE reqs' = [reqs EXCEPT ![r].pc = "done", ![r].status = 200,
                                     ![r].user = ReqUser(user), ![r].out = ReqUser(user)]
  /\ StoreUnchanged /\ ServerUnchanged

----------------------------------------------------------------------------
(* parseInt *)

NaN == [nan |-> TRUE]
Digits == <<"0", "1", "2", "3", "4", "5", "6", "7", "8", "9">>
IsDigit(c) == \E i \in DOMAIN Digits : Digits[i] = c
DigitVal(c) == (CHOOSE i \in DOMAIN Digits : Digits[i] = c) - 1

\* the value of the longest prefix of digits of s, continuing from acc
RECURSIVE ParseDigits(_, _)
ParseDigits(s, acc) ==
  IF s = <<>> \/ ~IsDigit(Head(s)) THEN acc
  ELSE ParseDigits(Tail(s), 10 * acc + DigitVal(Head(s)))

RECURSIVE SkipSpaces(_)
SkipSpaces(s) == IF s # <<>> /\ Head(s) = " " THEN SkipSpaces(Tail(s)) ELSE s

\* parseInt(v) of a JSON value: undefined, an integer, or a string (a sequence of characters)
ParseInt(v) ==
  IF "num" \in DOMAIN v THEN v
  ELSE IF "str" \in DOMAIN v THEN
    LET t == SkipSpaces(v.str)
        neg == t # <<>> /\ Head(t) = "-"
        d == IF t # <<>> /\ Head(t) \in {"-", "+"} THEN Tail(t) ELSE t
    IN  IF d = <<>> \/ ~IsDigit(Head(d)) THEN NaN
        ELSE [num |-> IF neg THEN 0 - ParseDigits(d, 0) ELSE ParseDigits(d, 0)]
  ELSE NaN

\* parseInt(attendeeCount) || 0
ParseAttendeeCount(v) ==
  LET n == ParseInt(v) IN IF n = NaN \/ n = [num |-> 0] THEN [num |-> 0] ELSE n

----------------------------------------------------------------------------
(* The events collection *)

RequiredFields == {"title", "name", "dateTime", "location", "description", "email"}

\* the filter { _id: new ObjectId(id) }
IdFilter(doc, id) == doc._id = ObjectId(id)

\* a filter that ignores the id: the first document of the collection matches
MatchFirst(coll, id) == IF coll = <<>> THEN 0 ELSE 1

\* updateOne / deleteOne with that filter: the index of the first document it
\* matches, or 0
MatchOne(coll, id) ==
  LET idx == {i \in DOMAIN coll : IdFilter(coll[i], id)}
  IN  IF idx = {} THEN 0 ELSE Min(idx)

\* an overwrite in place of the increment
SetToOne(doc) == [doc EXCEPT !.attendeeCount = [num |-> 1]]

\* { $inc: { attendeeCount: 1 } } applied to a document
Inc(doc) == [doc EXCEPT !.attendeeCount = [num |-> doc.attendeeCount.num + 1]]
\* $inc on a non-numeric field is rejected by the store
IncRejected(doc) == "num" \notin DOMAIN doc.attendeeCount

\* { $set: updatedData } applied to a document
Set(doc, updatedData) ==
  [f \in DOMAIN doc \cup DOMAIN updatedData |->
     IF f \in DOMAIN updatedData THEN updatedData[f] ELSE doc[f]]

\* deleteOne(filter): the collection without its i-th document
RemoveAt(coll, i) == [j \in 1..(Len(coll) - 1) |-> IF j < i THEN coll[j] ELSE coll[j + 1]]

\* the documents in insertion order, as a sequence sorted by createdAt descending
RECURSIVE SortNewestFirst(_)
SortNewestFirst(coll) ==
  IF coll = <<>> THEN <<>>
  ELSE LET i == CHOOSE k \in DOMAIN coll :
                  \A j \in DOMAIN coll :
                    \/ coll[k].createdAt > coll[j].createdAt
                    \/ coll[k].createdAt = coll[j].createdAt /\ k <= j
       IN  <<coll[i]>> \o SortNewestFirst(RemoveAt(coll, i))

----------------------------------------------------------------------------
(* POST /api/events *)

AttendeeInputs ==
  {absent, [num |-> 2], [str |-> <<"a", "b">>], [str |-> <<"-", "1">>]}

FullBody(email, attendeeCount) ==
  [title |-> "t", name |-> "n", dateTime |-> "d", location |-> "l",
   description |-> "x", email |-> email, attendeeCount |-> attendeeCount]

\* the bodies with all six required fields, and those with one of them undefined or empty
EventBodies ==
  {FullBody(e, a) : e \in Emails, a \in AttendeeInputs}
  \cup {[FullBody("e1", absent) EXCEPT ![f] = v] : f \in RequiredFields, v \in {undefined, ""}}

\* a validation that forgets the email
MissingRequiredButEmail(body) ==
  \E f \in RequiredFields \ {"email"} : body[f] = undefined \/ body[f] = ""

\* !title || !name || !dateTime || !location || !description || !email
Falsy(v) == v = undefined \/ v = ""
MissingRequired(body) == \E f \in RequiredFields : Falsy(body[f])

\* the document insertOne stores; createdAt: new Date(), a logical timestamp
EventDocument(id, body) ==
  [_id |-> id, title |-> body.title, name |-> body.name, dateTime |-> body.dateTime,
   location |-> body.location, description |-> body.description,
   attendeeCount |-> ParseAttendeeCount(body.attendeeCount),
   email |-> body.email, createdAt |-> id]

\* the guard `if (!eventsCollection) return res.status(503)` of part_000; without it the
\* first use of the undefined handle throws a TypeError
NotReady(route, in, caught) ==
  IF variant = "part_000" THEN Responded(route, in, 503, NoBody, "none") ELSE caught

createArrive ==
  \E body \in EventBodies :
    /\ variant # "index"
    /\ Receive(
         IF variant = "part_000" /\ ~eventsCollection
           THEN Responded("create", body, 503, NoBody, "none")
         ELSE IF MissingRequired(body)
           THEN Responded("create", body, 400, NoBody, "none")
         ELSE IF ~eventsCollection
           THEN Responded("create", body, 500, NoBody, "TypeError")
         ELSE Pending("create", body, "insertOne"))
    /\ StoreUnchanged /\ ServerUnchanged

createInsertOne(r) ==
  /\ Awaiting(r, "create", "insertOne")
  /\ events' = InsertOne(events, EventDocument(nextId, reqs[r].in))
  /\ Respond(r, 201, [eventId |-> nextId], "none")
  /\ nextId' = nextId + 1
  /\ UNCHANGED users /\ ServerUnchanged

----------------------------------------------------------------------------
(* GET /api/events *)

listArrive ==
  /\ variant # "index"
  /\ Receive(
       IF ~eventsCollection
         THEN NotReady("list", NoBody, Responded("list", NoBody, 500, NoBody, "TypeError"))
         ELSE Pending("list", NoBody, "find"))
  /\ StoreUnchanged /\ ServerUnchanged

listFind(r) ==
  /\ Awaiting(r, "list", "find")
  /\ Respond(r, 200, [array |-> SortNewestFirst(events)], "none")
  /\ StoreUnchanged /\ ServerUnchanged

----------------------------------------------------------------------------
(* GET /api/events/:email *)

\* part_001 builds the filter {} when the parameter is empty; part_000 always { email }
OwnerFilter(doc, email) ==
  IF variant = "part_001" /\ Falsy(email) THEN TRUE ELSE doc.email = email

\* find(filter).toArray()
Find(coll, email) == SelectSeq(coll, LAMBDA doc : OwnerFilter(doc, email))

\* part_001's handler has no try/catch, so a failure rejects the promise the
\* handler returns.  Express 4 ignores that promise: the rejection is unhandled and
\* the request gets no response.  Express 5 passes it to the default error handler,
\* which answers 500.  The repository does not pin the version.
Uncaught(route, in, err) ==
  {Req(route, in, "unhandledRejection", 0, NoBody, err), Responded(route, in, 500, NoBody, err)}

byOwnerArrive ==
  \E email \in Emails :
    /\ variant # "index"
    /\ \E uncaught \in Uncaught("byOwner", email, "TypeError") :
         Receive(
           IF ~eventsCollection
             THEN NotReady("byOwner", email, uncaught)
             ELSE Pending("byOwner", email, "find"))
    /\ StoreUnchanged /\ ServerUnchanged

byOwnerFind(r) ==
  /\ Awaiting(r, "byOwner", "find")
  /\ Respond(r, 200, [array |-> Find(events, reqs[r].in)], "none")
  /\ StoreUnchanged /\ ServerUnchanged

----------------------------------------------------------------------------
(* Routes with an :id parameter *)

\* the :id a client may send: the string form of an ObjectId, or another string
IdParams == {toString(n) : n \in 1..nextId} \cup {[raw |-> "abc"]}

\* the synchronous prefix shared by join, update and delete: the guard, then
\* new ObjectId(id) inside the try block
IdArrive(route, in, id, pc) ==
  IF ~eventsCollection
    THEN NotReady(route, in, Responded(route, in, 500, NoBody, "TypeError"))
  ELSE IF ~ObjectIdValid(id)
    THEN Responded(route, in, 500, NoBody, "BSONError")
  ELSE Pending(route, in, pc)

----------------------------------------------------------------------------
(* PATCH /api/events/join/:id *)

joinArrive ==
  \E id \in IdParams :
    /\ variant # "index"
    /\ Receive(IdArrive("join", [id |-> id], id, "updateOne"))
    /\ StoreUnchanged /\ ServerUnchanged

joinUpdateOne(r) ==
  /\ Awaiting(r, "join", "updateOne")
  /\ LET i == MatchOne(events, reqs[r].in.id)
     IN  IF i = 0
           THEN /\ Respond(r, 404, NoBody, "none")      \* modifiedCount === 0
                /\ UNCHANGED events
         ELSE IF IncRejected(events[i])
           THEN /\ Respond(r, 500, NoBody, "StoreError")
                /\ UNCHANGED events
         ELSE /\ events' = [events EXCEPT ![i] = Inc(events[i])]
              /\ Respond(r, 200, NoBody, "none")
  /\ UNCHANGED <<users, nextId>> /\ ServerUnchanged

----------------------------------------------------------------------------
(* PUT /api/events/:id *)

UpdateBodies ==
  {[attendeeCount |-> [num |-> 0 - 3]], [attendeeCount |-> [str |-> <<"m">>]],
   [email |-> "e2"]}

updateArrive ==
  \E id \in IdParams, updatedData \in UpdateBodies :
    /\ variant # "index"
    /\ Receive(IdArrive("update", [id |-> id, body |-> updatedData], id, "updateOne"))
    /\ StoreUnchanged /\ ServerUnchanged

updateUpdateOne(r) ==
  /\ Awaiting(r, "update", "updateOne")
  /\ LET i == MatchOne(events, reqs[r].in.id)
         new == Set(events[i], reqs[r].in.body)
     IN  IF i # 0 /\ new # events[i]
           THEN /\ events' = [events EXCEPT ![i] = new]      \* modifiedCount > 0
                /\ Respond(r, 200, NoBody, "none")
           ELSE /\ Respond(r, 404, NoBody, "none")
                /\ UNCHANGED events
  /\ UNCHANGED <<users, nextId>> /\ ServerUnchanged

----------------------------------------------------------------------------
(* DELETE /api/events/:id *)

deleteArrive ==
  \E id \in IdParams :
    /\ variant # "index"
    /\ Receive(IdArrive("delete", [id |-> id], id, "deleteOne"))
    /\ StoreUnchanged /\ ServerUnchanged

deleteDeleteOne(r) ==
  /\ Awaiting(r, "delete", "deleteOne")
  /\ LET i == MatchOne(events, reqs[r].in.id)
     IN  IF i # 0
           THEN /\ events' = RemoveAt(events, i)             \* deletedCount > 0
                /\ Respond(r, 200, NoBody, "none")
           ELSE /\ Respond(r, 404, NoBody, "none")
                /\ UNCHANGED events
  /\ UNCHANGED <<users, nextId>> /\ ServerUnchanged

----------------------------------------------------------------------------
(* A store operation fails: the awaited promise rejects *)

\* what each handler's catch block does with the rejection
storeRejects(r) ==
  /\ InFlight(r)
  /\ IF reqs[r].route = "me"
       THEN Respond(r, 403, NoBody, "StoreError")             \* authenticateJWT's catch
     ELSE IF reqs[r].route = "byOwner" /\ variant = "part_001"
       THEN \E uncaught \in Uncaught("byOwner", reqs[r].in, "StoreError") :
              reqs' = [reqs EXCEPT ![r] = uncaught]
     ELSE Respond(r, 500, NoBody, "StoreError")
  /\ StoreUnchanged /\ ServerUnchanged

----------------------------------------------------------------------------
(* The server from its construction: run() pending, every route, concurrent
   requests, store operations that may fail *)

Init ==
  /\ variant \in Variants
  /\ runPc = "connect"
  /\ usersCollection = FALSE
  /\ eventsCollection = FALSE
  /\ users = <<>>
  /\ events = <<>>
  /\ nextId = 1
  /\ reqs = <<>>

Next ==
  \/ runConnected
  \/ runFailed
  \/ signupArrive
  \/ loginArrive
  \/ meArrive
  \/ createArrive
  \/ listArrive
  \/ byOwnerArrive
  \/ joinArrive
  \/ updateArrive
  \/ deleteArrive
  \/ \E r \in DOMAIN reqs : signupFindOne(r)
  \/ \E r \in DOMAIN reqs : signupInsertOne(r)
  \/ \E r \in DOMAIN reqs : loginFindOne(r)
  \/ \E r \in DOMAIN reqs : meFindOne(r)
  \/ \E r \in DOMAIN reqs : createInsertOne(r)
  \/ \E r \in DOMAIN reqs : listFind(r)
  \/ \E r \in DOMAIN reqs : byOwnerFind(r)
  \/ \E r \in DOMAIN reqs : joinUpdateOne(r)
  \/ \E r \in DOMAIN reqs : updateUpdateOne(r)
  \/ \E r \in DOMAIN reqs : deleteDeleteOne(r)
  \/ \E r \in DOMAIN reqs : storeRejects(r)

Spec == Init /\ [][Next]_vars

----------------------------------------------------------------------------
(* The running server: run() has connected and store operations succeed *)

\* a user an earlier signup has stored
InitialUsers ==
  {<<>>,
   <<SignupDocument(1, [username |-> "u1", email |-> "e1", photoUrl |-> "img",
                        password |-> "p1"])>>}

\* two events earlier requests have created
InitialEvents ==
  <<EventDocument(1, FullBody("e1", absent)), EventDocument(2, FullBody("e2", [num |-> 2]))>>

Connected ==
  /\ variant \in Variants
  /\ runPc = "done"
  /\ usersCollection = TRUE
  /\ eventsCollection = (variant # "index")
  /\ reqs = <<>>

\* no request is being handled: requests do not overlap
Quiet == \A r \in DOMAIN reqs : reqs[r].pc \in Terminal

InitAuth ==
  /\ Connected
  /\ users \in InitialUsers
  /\ events = <<>>
  /\ nextId = Len(users) + 1

\* signup, login and /api/user/me, one request at a time
NextAuthSeq ==
  \/ Quiet /\ signupArrive
  \/ Quiet /\ loginArrive
  \/ Quiet /\ meArrive
  \/ \E r \in DOMAIN reqs : signupFindOne(r)
  \/ \E r \in DOMAIN reqs : signupInsertOne(r)
  \/ \E r \in DOMAIN reqs : loginFindOne(r)
  \/ \E r \in DOMAIN reqs : meFindOne(r)

SpecAuthSeq == InitAuth /\ [][NextAuthSeq]_vars

\* signup, login and /api/user/me, handlers interleaved
NextAuth ==
  \/ signupArrive
  \/ loginArrive
  \/ meArrive
  \/ \E r \in DOMAIN reqs : signupFindOne(r)
  \/ \E r \in DOMAIN reqs : signupInsertOne(r)
  \/ \E r \in DOMAIN reqs : loginFindOne(r)
  \/ \E r \in DOMAIN reqs : meFindOne(r)

SpecAuth == InitAuth /\ [][NextAuth]_vars

InitEvents ==
  /\ Connected
  /\ variant # "index"
  /\ users = <<>>
  /\ events = InitialEvents
  /\ nextId = Len(InitialEvents) + 1

\* the /api/events routes, handlers interleaved
NextEvents ==
  \/ createArrive
  \/ listArrive
  \/ byOwnerArrive
  \/ joinArrive
  \/ updateArrive
  \/ deleteArrive
  \/ \E r \in DOMAIN reqs : createInsertOne(r)
  \/ \E r \in DOMAIN reqs : listFind(r)
  \/ \E r \in DOMAIN reqs : byOwnerFind(r)
  \/ \E r \in DOMAIN reqs : joinUpdateOne(r)
  \/ \E r \in DOMAIN reqs : updateUpdateOne(r)
  \/ \E r \in DOMAIN reqs : deleteDeleteOne(r)

SpecEvents == InitEvents /\ [][NextEvents]_vars

----------------------------------------------------------------------------
(* Properties *)

Done(r) == reqs[r].pc = "done"
DoneOf(route) == {r \in DOMAIN reqs : reqs[r].route = route /\ Done(r)}

\* the _id a 201 signup response names
CreatedUserId(r) ==
  IF "userId" \in DOMAIN reqs[r].out THEN reqs[r].out.userId ELSE reqs[r].out.user.id

UsersWithEmail(e) == {i \in DOMAIN users : users[i].email = e}

\* the users with email e that were stored before request r arrived: those that
\* neither r nor a later request created
HeldBefore(e, r) ==
  {i \in UsersWithEmail(e) :
     \A q \in r..Len(reqs) :
       ~(reqs[q].route = "signup" /\ reqs[q].status = 201 /\ CreatedUserId(q) = users[i]._id)}

\* C1: when signup requests do not overlap, a signup (carrying a password) whose
\* email no stored user holds answers 201 and stores one record with that email;
\* a signup whose email is held answers 409 and stores nothing; so no email is
\* held by two records.
C1_SequentialSignupUniqueEmail ==
  /\ \A e \in Emails : Cardinality(UsersWithEmail(e)) <= 1
  /\ \A r \in DoneOf("signup") :
       LET e == reqs[r].in.email
       IN  reqs[r].in.password # undefined =>
             IF HeldBefore(e, r) = {}
               THEN /\ reqs[r].status = 201
                    /\ \E i \in UsersWithEmail(e) : users[i]._id = CreatedUserId(r)
               ELSE /\ reqs[r].status = 409
                    /\ reqs[r].out = NoBody
  /\ Len(users) = nextId - 1

\* a first signup with an email answered 201 and a later one with it answered 409
C1_Witness ==
  \E r, q \in DoneOf("signup") :
    /\ r < q
    /\ reqs[r].in.email = reqs[q].in.email
    /\ reqs[r].status = 201
    /\ reqs[q].status = 409
    /\ Cardinality(UsersWithEmail(reqs[r].in.email)) = 1

\* request r carries the :id of the event with _id id
Addresses(r, id) == reqs[r].in.id = toString(id)

JoinsOf(id) == {r \in DoneOf("join") : Addresses(r, id)}

\* C2: joins of a stored event are not lost.  For every event of the initial
\* store that no update or delete request addresses, in every interleaving of the
\* handlers: every completed join of it answered 200 and its attendeeCount is its
\* original count plus the number of completed joins.
C2_JoinCountsEveryJoin ==
  \A k \in DOMAIN InitialEvents :
    LET id == InitialEvents[k]._id
        c == InitialEvents[k].attendeeCount.num
    IN  (\A r \in DOMAIN reqs : reqs[r].route \in {"update", "delete"} => ~Addresses(r, id))
          => /\ \A r \in JoinsOf(id) : reqs[r].status = 200
             /\ \E i \in DOMAIN events :
                  /\ events[i]._id = id
                  /\ events[i].attendeeCount.num = c + Cardinality(JoinsOf(id))

\* MaxReq joins of the same event have completed
C2_Witness ==
  \E k \in DOMAIN InitialEvents :
    /\ Cardinality(JoinsOf(InitialEvents[k]._id)) = MaxReq
    /\ \E i \in DOMAIN events :
         /\ events[i]._id = InitialEvents[k]._id
         /\ events[i].attendeeCount.num = InitialEvents[k].attendeeCount.num + MaxReq

\* C3: a join whose :id matches no stored event, well-formed or malformed, answers
\* 404, never 500, and does not crash.
C3_JoinUnknownIdAnswers404 ==
  \A r \in DOMAIN reqs :
    (/\ reqs[r].route = "join"
     /\ reqs[r].pc \in Terminal
     /\ \/ ~ObjectIdValid(reqs[r].in.id)
        \/ ObjectId(reqs[r].in.id) >= nextId)
      => reqs[r].pc = "done" /\ reqs[r].status = 404

\* C4: a signup answered 201 that is directly followed by a login with its
\* credentials (the identifier the variant's login reads, and its password) gets
\* 200 and a token naming the user the signup created.
C4_SignupThenLoginSucceeds ==
  \A r \in DOMAIN reqs :
    (/\ r + 1 \in DOMAIN reqs
     /\ reqs[r].route = "signup" /\ reqs[r].status = 201
     /\ reqs[r + 1].route = "login" /\ Done(r + 1)
     /\ reqs[r + 1].in.password = reqs[r].in.password
     /\ IF variant = "part_000"
          THEN reqs[r + 1].in.email = reqs[r].in.email
          ELSE reqs[r + 1].in.username = reqs[r].in.username)
      => /\ reqs[r + 1].status = 200
         /\ reqs[r + 1].out.token.payload.userId = toString(CreatedUserId(r))
         /\ IF variant = "part_000"
              THEN reqs[r + 1].out.token.payload.email = reqs[r].in.email
              ELSE reqs[r + 1].out.token.payload.username = reqs[r].in.username

\* C5: GET /api/user/me answers 401 without an Authorization header, 403 with a
\* token that was not issued by this server (malformed, tampered, signed with
\* another key) or that has expired, and 200 with exactly the fields id, username,
\* email, photoUrl of the user the token names when the token was issued by login
\* or signup and has not expired; a 200 is only sent with req.user set.
C5_MeAnswersByToken ==
  \A r \in DoneOf("me") :
    LET h == reqs[r].in
    IN  /\ h.kind = "absent" => reqs[r].status = 401
        /\ (h.kind = "bearer" /\ (h.token \notin IssuedTokens \/ h.age >= ExpiresIn))
             => reqs[r].status = 403
        /\ (h.kind = "bearer" /\ h.token \in IssuedTokens /\ h.age < ExpiresIn)
             => /\ reqs[r].status = 200
                /\ DOMAIN reqs[r].out = {"id", "username", "email", "photoUrl"}
                /\ \E i \in DOMAIN users :
                     /\ toString(users[i]._id) = h.token.payload.userId
                     /\ reqs[r].out.id = users[i]._id
                     /\ reqs[r].out.username = users[i].username
                     /\ reqs[r].out.email = users[i].email
                     /\ reqs[r].out.photoUrl = users[i].photoUrl
        /\ reqs[r].status = 200 => reqs[r].user = reqs[r].out /\ reqs[r].user # absent

\* a token issued by login or signup, not expired, was answered 200
C5_Witness ==
  \E r \in DoneOf("me") :
    /\ reqs[r].in.kind = "bearer"
    /\ reqs[r].in.token \in IssuedTokens
    /\ reqs[r].in.age = ExpiresIn - 1
    /\ reqs[r].status = 200
    /\ reqs[r].out.id = ObjectId(reqs[r].in.token.payload.userId)

Stored(id) == \E i \in DOMAIN events : events[i]._id = id

\* the ids whose DELETE was answered with success
DeletedIds ==
  {ObjectId(reqs[d].in.id) : d \in {x \in DoneOf("delete") : reqs[x].status = 200}}

\* C6: POST /api/events with one of the six required fields undefined or empty
\* answers 400 and stores nothing; with all six present it answers 201 and stores
\* exactly one event.
C6_CreateValidatesRequiredFields ==
  /\ \A r \in DOMAIN reqs :
       reqs[r].route = "create" =>
         IF \E f \in RequiredFields : reqs[r].in[f] \in {undefined, ""}
           THEN Done(r) /\ reqs[r].status = 400 /\ reqs[r].out = NoBody
           ELSE Done(r) =>
                  /\ reqs[r].status = 201
                  /\ Stored(reqs[r].out.eventId) \/ reqs[r].out.eventId \in DeletedIds
                  /\ Cardinality({i \in DOMAIN events :
                                    events[i]._id = reqs[r].out.eventId}) <= 1
  \* one insert per 201, none otherwise
  /\ nextId = Len(InitialEvents) + 1
                + Cardinality({r \in DoneOf("create") : reqs[r].status = 201})

\* a body without a required field was answered 400 and a complete one 201
C6_Witness ==
  /\ \E r \in DoneOf("create") : reqs[r].status = 400 /\ reqs[r].in.email = ""
  /\ \E r \in DoneOf("create") : reqs[r].status = 201 /\ Stored(reqs[r].out.eventId)

\* C7: a DELETE of a stored event answers success and removes exactly that record;
\* a GET /api/events answered afterwards does not list it; a DELETE of an id that
\* was already deleted answers 404 and leaves the collection unchanged.
C7_DeleteRemovesOnce ==
  [][\A r \in DOMAIN reqs :
       /\ (Awaiting(r, "delete", "deleteOne") /\ reqs'[r].pc # "deleteOne") =>
            LET id == ObjectId(reqs[r].in.id)
            IN  /\ Stored(id) =>
                     /\ reqs'[r].pc = "done" /\ reqs'[r].status = 200
                     /\ events' = SelectSeq(events, LAMBDA doc : doc._id # id)
                     /\ Len(events') = Len(events) - 1
                /\ id \in DeletedIds =>
                     /\ reqs'[r].pc = "done" /\ reqs'[r].status = 404
                     /\ events' = events
       /\ (Awaiting(r, "list", "find") /\ reqs'[r].pc # "find") =>
            /\ reqs'[r].pc = "done" /\ reqs'[r].status = 200
            /\ \A k \in DOMAIN reqs'[r].out.array :
                 reqs'[r].out.array[k]._id \notin DeletedIds]_vars

\* an event was deleted, and a second DELETE of it was answered 404
C7_Witness ==
  \E d, e \in DoneOf("delete") :
    /\ d < e
    /\ reqs[d].in.id = reqs[e].in.id
    /\ reqs[d].status = 200
    /\ reqs[e].status = 404
    /\ ~Stored(ObjectId(reqs[d].in.id))

\* C8: while run() has not assigned the collection handles (the connection is
\* pending or has failed), every request to a route that uses the store is
\* answered 503.
C8_NotReadyAnswers503 ==
  runPc # "done" => \A r \in DOMAIN reqs : reqs[r].pc = "done" /\ reqs[r].status = 503

\* C9: a signup handler that has passed the existence check inserts and answers
\* 201 whatever was stored in the meantime; so two overlapping signups with the
\* same fresh email both answer 201 and leave two records with that email.
C9_SignupInsertsAfterCheck ==
  [][\A r \in DOMAIN reqs :
       (Awaiting(r, "signup", "insertOne") /\ reqs'[r].pc # "insertOne") =>
         /\ reqs'[r].pc = "done" /\ reqs'[r].status = 201
         /\ Len(users') = Len(users) + 1
         /\ users'[Len(users')].email = reqs[r].in.email
         /\ users'[Len(users')]._id = CreatedUserId(r)']_vars

\* two signups with the same email were both answered 201 and two records hold it
C9_Witness ==
  \E r, q \in DoneOf("signup") :
    /\ r # q
    /\ reqs[r].in.email = reqs[q].in.email
    /\ reqs[r].status = 201 /\ reqs[q].status = 201
    /\ Cardinality(UsersWithEmail(reqs[r].in.email)) = 2

\* C10: a request whose awaited store operation failed is answered 500, and is
\* neither answered with another status nor left without a response.
C10_StoreFailureAnswers500 ==
  \A r \in DOMAIN reqs :
    reqs[r].err = "StoreError" => reqs[r].pc = "done" /\ reqs[r].status = 500

\* C11: the attendeeCount of every stored event is a non-negative integer, after
\* any sequence of create, join, update and delete requests.
C11_AttendeeCountNonNegativeInteger ==
  \A i \in DOMAIN events :
    /\ DOMAIN events[i].attendeeCount = {"num"}
    /\ events[i].attendeeCount.num \in Nat

====
